---- MODULE Spec2Model ----
(***************************************************************************)
(* A model of parse_antismash.py (the ClusterBlast report parser):         *)
(* normalize_gene_id, parse_query_cluster_block, parse_file,               *)
(* process_sample and main; and of the two FASTA tools                     *)
(* complete_missing_species.py and combine_seqs.py.                        *)
(*                                                                         *)
(* A Python str is a sequence of one-character strings.  The fixed phrases *)
(* of the report format ("Table of Blast hits", "Source:", ...) are one    *)
(* symbol each: no input of the model contains a part of such a phrase, so *)
(* a prefix test on symbols is the prefix test on characters.              *)
(***************************************************************************)
EXTENDS Integers, Sequences, FiniteSets, TLC

VARIABLES
    nraw,        \* normalize_gene_id: the raw identifier
    npass,       \* normalize_gene_id: the results of the successive passes
    dirs,        \* the input tree: sample name -> sample directory
    pc,          \* where main is: "main", "sample", "done", "crashed"
    todo,        \* main: the sample directories not yet handed to process_sample
    cur,         \* process_sample: sample_name
    txt_files,   \* process_sample: the sorted report files not yet processed
    merged_rows, \* process_sample: the per-file merged tables accumulated
    last,        \* the last iteration of the loop over txt_files: its file and tables
    out_results, \* written <fname>.results.tsv files: <<sample, fname>> -> table
    out_unmatched, \* written <fname>.unmatched_rows.csv files
    out_sample,  \* written <sample>.merged_results.tsv files: sample -> table
    args,        \* FASTA tools: the species file, the FASTA files, line_length
    fa_pc,       \* FASTA tools: which tool runs ("complete", "combine") and where it is
    orthogroups, \* process_files: the orthogroup files not yet processed
    completed,   \* process_files: the output files written, by orthogroup
    expected,    \* combine_seqs: the dict species -> sequence
    ortholog_files, \* concatenate_sequences: the ortholog files not yet read
    output_file  \* combine_seqs: the lines of the output FASTA file, once written

vars == <<nraw, npass, dirs, pc, todo, cur, txt_files, merged_rows, last,
          out_results, out_unmatched, out_sample,
          args, fa_pc, orthogroups, completed, expected, ortholog_files, output_file>>

seqVars == <<args, fa_pc, orthogroups, completed, expected, ortholog_files, output_file>>

pipeVars == <<dirs, pc, todo, cur, txt_files, merged_rows, last,
              out_results, out_unmatched, out_sample>>

----------------------------------------------------------------------------
(* Characters and the str methods the program uses.                        *)

SP == " "
TAB == "\t"
CR == "\r"
LF == "\n"
\* U+001F (unit separator): a character str.strip() removes as whitespace,
\* that str.splitlines() does not split on, and that is neither in the
\* class [\r\n\t] nor in the set ' ,;:'.  U+00A0 behaves the same.
US == "US"
DQ == "\""
SQ == "'"

\* Python's None (a value no str equals).
None == <<"<None>">>


\* All strings over alphabet A of length at most n.
Strs(A, n) == UNION {[1..k -> A] : k \in 0..n}

RECURSIVE LStripSet(_, _)
LStripSet(s, cs) ==
    IF s # <<>> /\ Head(s) \in cs THEN LStripSet(Tail(s), cs) ELSE s

RECURSIVE RStripSet(_, _)
RStripSet(s, cs) ==
    IF s # <<>> /\ s[Len(s)] \in cs THEN RStripSet(SubSeq(s, 1, Len(s) - 1), cs) ELSE s

\* str.strip(): leading and trailing whitespace removed.
Strip(s) == RStripSet(LStripSet(s, {SP, TAB, CR, LF, US}), {SP, TAB, CR, LF, US})

\* str.startswith(p).
StartsWith(s, p) == Len(s) >= Len(p) /\ SubSeq(s, 1, Len(p)) = p

\* Every character of cs deleted from s (re.sub of a class by '', str.replace by '').
Delete(s, cs) == SelectSeq(s, LAMBDA c : c \notin cs)

NormalizeOnce(s) ==
    RStripSet(Delete(Delete(Strip(s), {CR, LF, TAB}), {DQ, SQ}), {SP, ",", ";", ":"})

\* normalize_gene_id on a str (the pd.isna branch returns None/NaN as it is;
\* every caller passes a str, after astype(str) or from a split).
normalize_gene_id(s) == IF s = None THEN None ELSE NormalizeOnce(s)

----------------------------------------------------------------------------
(* Splitting and regular expressions.                                      *)

\* The index of the first character of s that is in cs, 0 when there is none.
FirstIn(s, cs) ==
    IF \E i \in 1..Len(s) : s[i] \in cs
    THEN CHOOSE i \in 1..Len(s) : s[i] \in cs /\ \A j \in 1..(i - 1) : s[j] \notin cs
    ELSE 0

\* The length of the longest prefix of s made of characters satisfying cs.
RECURSIVE RunLen(_, _)
RunLen(s, cs) == IF s # <<>> /\ Head(s) \in cs THEN 1 + RunLen(Tail(s), cs) ELSE 0

\* str.split('\t'): the fields between tabs, empty ones kept.
RECURSIVE SplitTab(_)
SplitTab(s) ==
    LET i == FirstIn(s, {TAB})
    IN  IF i = 0 THEN <<s>>
        ELSE <<SubSeq(s, 1, i - 1)>> \o SplitTab(SubSeq(s, i + 1, Len(s)))

\* str.split(): the tokens between runs of whitespace, none empty.
RECURSIVE SplitWs(_)
SplitWs(s) ==
    LET t == LStripSet(s, {SP, TAB, CR, LF, US})
        j == FirstIn(t, {SP, TAB, CR, LF, US})
    IN  IF t = <<>> THEN <<>>
        ELSE IF j = 0 THEN <<t>>
        ELSE <<SubSeq(t, 1, j - 1)>> \o SplitWs(SubSeq(t, j, Len(t)))

\* " ".join(toks)
RECURSIVE JoinSp(_)
JoinSp(toks) ==
    IF toks = <<>> THEN <<>>
    ELSE IF Len(toks) = 1 THEN toks[1]
    ELSE toks[1] \o <<SP>> \o JoinSp(Tail(toks))

Digits == {"0", "1", "2", "3", "4", "5", "6", "7", "8", "9"}
Uppers == {"B", "G", "C"}
Lowers == {"a", "b", "c", "g", "k", "s", "x", "y"}

\* What follows a match of ^\d+\.\s+ at the start of s; None when it does not match.
AfterOrdinal(s) ==
    LET d == RunLen(s, Digits)
    IN  IF d = 0 \/ Len(s) < d + 1 \/ s[d + 1] # "." THEN None
        ELSE LET rest == SubSeq(s, d + 2, Len(s))
                 w == RunLen(rest, {SP, TAB, CR, LF, US})
             IN  IF w = 0 THEN None ELSE SubSeq(rest, w + 1, Len(rest))

\* ([A-Z]{3}\d+[\d\.\-A-Za-z]*) matched at the start of t: the group, or None.
GroupBgc(t) ==
    IF t = None \/ Len(t) < 4 THEN None
    ELSE IF ~(t[1] \in Uppers /\ t[2] \in Uppers /\ t[3] \in Uppers /\ t[4] \in Digits)
    THEN None
    ELSE SubSeq(t, 1, 3 + RunLen(SubSeq(t, 4, Len(t)),
                                 Digits \cup Uppers \cup Lowers \cup {".", "-"}))

\* (BGC[0-9\.\-]+) matched at the start of t: the group, or None.
GroupBgc2(t) ==
    IF t = None \/ Len(t) < 4 THEN None
    ELSE IF ~(SubSeq(t, 1, 3) = <<"B", "G", "C">> /\ t[4] \in Digits \cup {".", "-"})
    THEN None
    ELSE SubSeq(t, 1, 3 + RunLen(SubSeq(t, 4, Len(t)), Digits \cup {".", "-"}))

\* re.match(r'^\d+\.\s+([A-Z]{3}\d+[\d\.\-A-Za-z]*)', s): group(1), or None.
MatchBgc(s) == GroupBgc(AfterOrdinal(s))

\* re.match(r'^\d+\.\s+(BGC[0-9\.\-]+)', s): group(1), or None.
MatchBgc2(s) == GroupBgc2(AfterOrdinal(s))

\* BGC at the start of t.
GroupFallback(t) == t # None /\ StartsWith(t, <<"B", "G", "C">>)

\* re.match(r'^\d+\.\s+BGC', s)
MatchFallback(s) == GroupFallback(AfterOrdinal(s))

\* CleanBgcId with the pattern \.[^.]*$ : id cut at its last '.'.
CleanBgcId_LastDot(id) ==
    LET ds == {i \in 1..Len(id) : id[i] = "."}
    IN  IF ds = {} THEN id
        ELSE SubSeq(id, 1, (CHOOSE i \in ds : \A j \in ds : j <= i) - 1)

\* re.sub(r'\..*$', '', id): id cut at its first '.'.
CleanBgcId(id) ==
    LET i == FirstIn(id, {"."})
    IN  IF i = 0 THEN id ELSE SubSeq(id, 1, i - 1)

----------------------------------------------------------------------------
(* The fixed phrases of a report, one symbol each.                         *)

KW_QUERY == "Table of genes, locations, strands and annotations of query cluster:"
KW_SIG == "Significant hits:"
KW_DETAILS == "Details:"
KW_HITS == "Table of Blast hits"
KW_SOURCE == "Source:"
KW_TYPE == "Type:"
KW_NPROT == "Number of proteins with BLAST hits to this cluster:"
KW_CUM == "Cumulative BLAST score:"

\* How many leading lines of a block are searched for metadata.
MetaWindow == 15
\* The number of fields a query-cluster line and a hit line need.
QueryFields == 5
HitFields == 6

----------------------------------------------------------------------------
(* parse_query_cluster_block                                               *)

QueryRowTab(parts) ==
    [query_gene |-> normalize_gene_id(parts[1]),
     start |-> Strip(parts[2]),
     stop |-> Strip(parts[3]),
     strand |-> Strip(parts[4]),
     annotation |-> IF parts[5] # <<>> THEN Strip(parts[5]) ELSE None]

\* QueryRowWs keeping the fifth token only as the annotation.
QueryRowWs_FifthTokenOnly(parts_ws) ==
    [query_gene |-> normalize_gene_id(parts_ws[1]),
     start |-> parts_ws[2],
     stop |-> parts_ws[3],
     strand |-> parts_ws[4],
     annotation |-> parts_ws[5]]

QueryRowWs(parts_ws) ==
    [query_gene |-> normalize_gene_id(parts_ws[1]),
     start |-> parts_ws[2],
     stop |-> parts_ws[3],
     strand |-> parts_ws[4],
     annotation |-> JoinSp(SubSeq(parts_ws, 5, Len(parts_ws)))]

\* The rows of one line (none or one), from its tab fields or else its tokens.
QueryRowsOf(parts, parts_ws) ==
    IF Len(parts) >= QueryFields THEN <<QueryRowTab(parts)>>
    ELSE IF Len(parts_ws) >= QueryFields THEN <<QueryRowWs(parts_ws)>>
    ELSE <<>>

QueryLineRows(ln) == QueryRowsOf(SplitTab(ln), SplitWs(ln))

\* The test that ends the loop, on ln.strip().
QueryStopStripped(s) ==
    \/ s = <<>>
    \/ StartsWith(s, <<KW_SIG>>)
    \/ StartsWith(s, <<KW_DETAILS>>)

QueryStop(ln) == QueryStopStripped(Strip(ln))

RECURSIVE QueryLoop(_)
QueryLoop(lines) ==
    IF lines = <<>> \/ QueryStop(Head(lines)) THEN <<>>
    ELSE QueryLineRows(Head(lines)) \o QueryLoop(Tail(lines))

\* df["query_gene"] = df["query_gene"].astype(str).apply(normalize_gene_id)
RenormalizeGene(df) ==
    [i \in 1..Len(df) |-> [df[i] EXCEPT !.query_gene = normalize_gene_id(@)]]

parse_query_cluster_block(lines) == RenormalizeGene(QueryLoop(lines))

----------------------------------------------------------------------------
(* parse_file                                                              *)

\* The index of the first line whose stripped text starts with kw, 0 if none.
FirstLineWith(lines, kw) ==
    IF \E i \in 1..Len(lines) : StartsWith(Strip(lines[i]), <<kw>>)
    THEN CHOOSE i \in 1..Len(lines) :
            /\ StartsWith(Strip(lines[i]), <<kw>>)
            /\ \A j \in 1..(i - 1) : ~StartsWith(Strip(lines[j]), <<kw>>)
    ELSE 0

\* 1) the query cluster block: the lines after the first header line.
FindQuery(lines) ==
    LET i == FirstLineWith(lines, KW_QUERY)
    IN  IF i = 0 THEN <<>>
        ELSE parse_query_cluster_block(SubSeq(lines, i + 1, Len(lines)))

IsPrimaryStart(ln) == StartsWith(Strip(ln), <<">", ">">>)
IsFallbackStart(ln) == MatchFallback(Strip(ln))

\* The ascending sequence of the members of a set of indices.
RECURSIVE Ascending(_)
Ascending(S) ==
    IF S = {} THEN <<>>
    ELSE LET m == CHOOSE x \in S : \A y \in S : x <= y
         IN  <<m>> \o Ascending(S \ {m})

\* BlockStarts taking a report without any start line as one block.
BlockStarts_WholeFile(lines) ==
    LET prim == {i \in 1..Len(lines) : IsPrimaryStart(lines[i])}
        fall == {i \in 1..Len(lines) : IsFallbackStart(lines[i])}
    IN  IF prim # {} THEN Ascending(prim)
        ELSE IF fall # {} THEN Ascending(fall)
        ELSE IF lines = <<>> THEN <<>> ELSE <<1>>

\* BlockStarts taking the lines of both kinds together.
BlockStarts_BothKinds(lines) ==
    Ascending({i \in 1..Len(lines) : IsPrimaryStart(lines[i]) \/ IsFallbackStart(lines[i])})

\* idxs: the '>>' lines, and only when there is none the 'N. BGC' lines.
BlockStarts(lines) ==
    LET prim == {i \in 1..Len(lines) : IsPrimaryStart(lines[i])}
    IN  IF prim # {} THEN Ascending(prim)
        ELSE Ascending({i \in 1..Len(lines) : IsFallbackStart(lines[i])})

\* BlockOf with a block ending on the next start line, not before it.
BlockOf_ThroughNextStart(lines, idxs, j) ==
    SubSeq(lines, idxs[j], IF j + 1 <= Len(idxs) THEN idxs[j + 1] ELSE Len(lines))

\* lines[start_idx:end_idx] of the j-th start.
BlockOf(lines, idxs, j) ==
    SubSeq(lines, idxs[j], IF j + 1 <= Len(idxs) THEN idxs[j + 1] - 1 ELSE Len(lines))

\* MetaInit with empty strings for the fields not found yet.
MetaInit_EmptyStrings ==
    [bgc_id |-> None, source_name |-> <<>>, bgc_type |-> <<>>,
     proteins_with_hits |-> <<>>, cum_score |-> <<>>]

MetaInit ==
    [bgc_id |-> None, source_name |-> None, bgc_type |-> None,
     proteins_with_hits |-> None, cum_score |-> None]

\* bgc_id after one line: m_bgc overwrites it; m2 sets it only when it is
\* still unset after that.
NextBgcId(bgc_id, m_bgc, m2) ==
    IF m_bgc # None THEN m_bgc
    ELSE IF m2 # None /\ bgc_id = None THEN m2
    ELSE bgc_id

\* The text after a label (split(label, 1)[1].strip()), or old when the
\* line does not start with the label.
Labelled(s, kw, old) == IF StartsWith(s, <<kw>>) THEN Strip(Tail(s)) ELSE old

\* One pass of the header loop body, on ln_stripped.
MetaStepStripped(m, s) ==
    [bgc_id |-> NextBgcId(m.bgc_id, MatchBgc(s), MatchBgc2(s)),
     source_name |-> Labelled(s, KW_SOURCE, m.source_name),
     bgc_type |-> Labelled(s, KW_TYPE, m.bgc_type),
     proteins_with_hits |-> Labelled(s, KW_NPROT, m.proteins_with_hits),
     cum_score |-> Labelled(s, KW_CUM, m.cum_score)]

MetaStep(m, ln) == MetaStepStripped(m, Strip(ln))

RECURSIVE MetaLoop(_, _)
MetaLoop(m, lines) ==
    IF lines = <<>> THEN m ELSE MetaLoop(MetaStep(m, Head(lines)), Tail(lines))

BlockMeta(block) ==
    MetaLoop(MetaInit, SubSeq(block, 1, IF Len(block) < MetaWindow THEN Len(block) ELSE MetaWindow))

bgc_id_clean(m) == IF m.bgc_id # None THEN CleanBgcId(m.bgc_id) ELSE None

HitRow(m, q, subj, pct_id, bscore, pct_cov, ev) ==
    [BCG_identifier |-> bgc_id_clean(m),
     BCG_name |-> m.source_name,
     BCG_type |-> m.bgc_type,
     proteins_with_blast_hits |-> m.proteins_with_hits,
     cum_BLAST_Score |-> m.cum_score,
     query_gene |-> q,
     subject_gene |-> subj,
     pct_identity |-> pct_id,
     blast_score |-> bscore,
     pct_coverage |-> pct_cov,
     evalue |-> ev]

HitRowTab(m, parts) ==
    HitRow(m, normalize_gene_id(parts[1]), Strip(parts[2]), Strip(parts[3]),
           Strip(parts[4]), Strip(parts[5]), Strip(parts[6]))

HitRowWs(m, parts_ws) ==
    HitRow(m, normalize_gene_id(parts_ws[1]), parts_ws[2], parts_ws[3],
           parts_ws[4], parts_ws[5], parts_ws[6])

\* HitRowsOf trying the whitespace tokens before the tab fields.
HitRowsOf_TokensFirst(m, parts, parts_ws) ==
    IF Len(parts_ws) >= HitFields THEN <<HitRowWs(m, parts_ws)>>
    ELSE IF Len(parts) >= HitFields THEN <<HitRowTab(m, parts)>>
    ELSE <<>>

\* The rows of one hit line (none or one), from its tab fields or else its tokens.
HitRowsOf(m, parts, parts_ws) ==
    IF Len(parts) >= HitFields THEN <<HitRowTab(m, parts)>>
    ELSE IF Len(parts_ws) >= HitFields THEN <<HitRowWs(m, parts_ws)>>
    ELSE <<>>

HitLineRows(m, ln) == HitRowsOf(m, SplitTab(ln), SplitWs(ln))

\* The test that ends the loop, on ln.strip().
HitStopStripped(s) ==
    \/ s = <<>>
    \/ StartsWith(s, <<">", ">">>)
    \/ MatchFallback(s)

HitStop(ln) == HitStopStripped(Strip(ln))

\* HitLoop ending at the first line that gives no row.
RECURSIVE HitLoop_EndsAtOddLine(_, _)
HitLoop_EndsAtOddLine(m, lines) ==
    IF lines = <<>> \/ HitStop(Head(lines)) \/ HitLineRows(m, Head(lines)) = <<>> THEN <<>>
    ELSE HitLineRows(m, Head(lines)) \o HitLoop_EndsAtOddLine(m, Tail(lines))

RECURSIVE HitLoop(_, _)
HitLoop(m, lines) ==
    IF lines = <<>> \/ HitStop(Head(lines)) THEN <<>>
    ELSE HitLineRows(m, Head(lines)) \o HitLoop(m, Tail(lines))

\* The rows a block with metadata m appends to hits_rows; hits_start is
\* k + 1, k the line of the hits header (0: no hits table here).
RowsAfter(m, block, k) ==
    IF k = 0 THEN <<>> ELSE HitLoop(m, SubSeq(block, k + 1, Len(block)))

\* One iteration of the loop over idxs: the block's lines, the bgc_id its
\* header loop captured, and the rows it appended to hits_rows.
BlockRecord(start_idx, block, m) ==
    [start_idx |-> start_idx,
     block |-> block,
     bgc_id |-> m.bgc_id,
     rows |-> RowsAfter(m, block, FirstLineWith(block, KW_HITS))]

ParseBlock(start_idx, block) == BlockRecord(start_idx, block, BlockMeta(block))

BlocksAt(lines, idxs) ==
    [j \in 1..Len(idxs) |-> ParseBlock(idxs[j], BlockOf(lines, idxs, j))]

\* The loop over idxs.
parse_blocks(lines) == BlocksAt(lines, BlockStarts(lines))

RECURSIVE Concat(_)
Concat(tables) == IF tables = <<>> THEN <<>> ELSE Head(tables) \o Concat(Tail(tables))

\* RowsOfBlocks with the rows of a later block put before those of an earlier one.
RowsOfBlocks_LaterFirst(bs) == Concat([j \in 1..Len(bs) |-> bs[Len(bs) + 1 - j].rows])

\* hits_rows: the rows of the blocks, block after block.
RowsOfBlocks(bs) == Concat([j \in 1..Len(bs) |-> bs[j].rows])

\* What parse_file returns for the lines of a readable file, given the
\* blocks of its loop: (query_df, hits_df), each with its query_gene column
\* normalized once more (lines 214-217).
parse_file(lines, blocks) ==
    [query_df |-> RenormalizeGene(FindQuery(lines)),
     hits_df |-> RenormalizeGene(RowsOfBlocks(blocks))]

----------------------------------------------------------------------------
(* process_sample: the merge of one report.  The region column, which the  *)
(* file name alone decides and no join reads, is left out of the rows.     *)

\* query_df.drop_duplicates(subset=["query_gene"]): the first row of each key.
RECURSIVE DropDupFrom(_, _)
DropDupFrom(df, seen) ==
    IF df = <<>> THEN <<>>
    ELSE IF Head(df).query_gene \in seen THEN DropDupFrom(Tail(df), seen)
    ELSE <<Head(df)>> \o DropDupFrom(Tail(df), seen \cup {Head(df).query_gene})

drop_duplicates(df) == DropDupFrom(df, {})

\* query_sub: de-duplicated, then its key normalized once more (line 274).
query_sub_of(query_df) == RenormalizeGene(drop_duplicates(query_df))

MergedBoth(h, q) ==
    h @@ [start |-> q.start, stop |-> q.stop, strand |-> q.strand,
          annotation |-> q.annotation, _merge |-> "both"]

MergedLeftOnly(h) ==
    h @@ [start |-> None, stop |-> None, strand |-> None,
          annotation |-> None, _merge |-> "left_only"]

\* The rows of pd.merge(..., how="left", indicator=True) for one hit row.
MergeOne(h, query_sub) ==
    LET ms == SelectSeq(query_sub, LAMBDA q : q.query_gene = h.query_gene)
    IN  IF ms = <<>> THEN <<MergedLeftOnly(h)>>
        ELSE [i \in 1..Len(ms) |-> MergedBoth(h, ms[i])]

RECURSIVE pd_merge(_, _)
pd_merge(hits_df, query_sub) ==
    IF hits_df = <<>> THEN <<>>
    ELSE MergeOne(Head(hits_df), query_sub) \o pd_merge(Tail(hits_df), query_sub)

\* unmatched_of with the test inverted: the rows that did match.
unmatched_of_Matched(merged) == SelectSeq(merged, LAMBDA r : r._merge = "both")

\* merged[merged["_merge"] == "left_only"]
unmatched_of(merged) == SelectSeq(merged, LAMBDA r : r._merge = "left_only")

\* merged.drop(columns=["_merge"])
drop_merge(merged) ==
    [i \in 1..Len(merged) |-> [f \in (DOMAIN merged[i]) \ {"_merge"} |-> merged[i][f]]]

\* Everything one iteration of the loop over txt_files computes from a
\* readable file: the blocks and tables of parse_file, the tables at the
\* join (hits_df and query_sub, normalized once more), and the join.
Joined(blocks, query_df, hits_df, query_sub, merged) ==
    [blocks |-> blocks,
     query_df |-> query_df,
     hits_df |-> hits_df,
     query_sub |-> query_sub,
     merged |-> merged,
     unmatched |-> unmatched_of(merged)]

JoinTables(blocks, query_df, hits_df, query_sub) ==
    Joined(blocks, query_df, hits_df, query_sub, pd_merge(hits_df, query_sub))

MergeParsed(blocks, query_df, hits_df) ==
    JoinTables(blocks, query_df, RenormalizeGene(hits_df), query_sub_of(query_df))

MergeReport(blocks, pf) == MergeParsed(blocks, pf.query_df, pf.hits_df)

ReportWith(lines, blocks) == MergeReport(blocks, parse_file(lines, blocks))

process_report(lines) == ReportWith(lines, parse_blocks(lines))

----------------------------------------------------------------------------
(* main and process_sample.                                                *)
(*                                                                         *)
(* A sample directory is [subdir, files]: subdir says whether the report   *)
(* subdirectory exists under its given name ("named"), only under its      *)
(* lower-case name ("lower") or not at all ("absent"); files maps the name *)
(* of each *.txt file in it to [readable, lines], lines being what         *)
(* read_text().splitlines() returns when the file can be read.             *)

\* The code point of the first character of a symbol of a file name.
Ord(c) ==
    CASE c = ".txt" -> 46
      [] c = "0" -> 48
      [] c = "1" -> 49
      [] c = "2" -> 50
      [] c = "c" -> 99
      [] c = "s" -> 115

\* a < b for two str, as sorted() compares them.
RECURSIVE LexLess(_, _)
LexLess(a, b) ==
    IF b = <<>> THEN FALSE
    ELSE IF a = <<>> THEN TRUE
    ELSE IF Head(a) # Head(b) THEN Ord(Head(a)) < Ord(Head(b))
    ELSE LexLess(Tail(a), Tail(b))

\* Sorted in descending order.
RECURSIVE Sorted_Descending(_)
Sorted_Descending(names) ==
    IF names = {} THEN <<>>
    ELSE LET m == CHOOSE x \in names : \A y \in names \ {x} : LexLess(y, x)
         IN  <<m>> \o Sorted_Descending(names \ {m})

\* sorted(glob.glob(os.path.join(known_dir, "*.txt")))
RECURSIVE Sorted(_)
Sorted(names) ==
    IF names = {} THEN <<>>
    ELSE LET m == CHOOSE x \in names : \A y \in names \ {x} : LexLess(x, y)
         IN  <<m>> \o Sorted(names \ {m})

NoLast ==
    [sample |-> "-", fname |-> None, blocks |-> <<>>, query_df |-> <<>>, hits_df |-> <<>>,
     query_sub |-> <<>>, merged |-> <<>>, unmatched |-> <<>>]

\* main calls process_sample on the next sample directory (glob.glob gives
\* them in no particular order).  process_sample returns at once when the
\* report subdirectory is missing or holds no *.txt file.
EnterSample ==
    /\ pc = "main"
    /\ \E s \in todo :
        /\ todo' = todo \ {s}
        /\ \/ /\ dirs[s].subdir = "absent"
              /\ UNCHANGED <<pc, cur, txt_files, merged_rows>>
           \/ /\ dirs[s].subdir # "absent"
              /\ DOMAIN dirs[s].files = {}
              /\ UNCHANGED <<pc, cur, txt_files, merged_rows>>
           \/ /\ dirs[s].subdir # "absent"
              /\ DOMAIN dirs[s].files # {}
              /\ pc' = "sample"
              /\ cur' = s
              /\ txt_files' = Sorted(DOMAIN dirs[s].files)
              /\ merged_rows' = <<>>
    /\ UNCHANGED <<nraw, npass, dirs, last, out_results, out_unmatched, out_sample>>
    /\ UNCHANGED seqVars

\* One iteration of the loop over txt_files, on a file that can be read:
\* parse, merge, write the unmatched rows if any, write the results.
ProcessFile ==
    /\ pc = "sample"
    /\ txt_files # <<>>
    /\ dirs[cur].files[Head(txt_files)].readable
    /\ \E fname \in {Head(txt_files)} :
       \E r \in {process_report(dirs[cur].files[fname].lines)} :
           /\ last' = [sample |-> cur, fname |-> fname] @@ r
           /\ txt_files' = Tail(txt_files)
           /\ IF r.hits_df = <<>>
              THEN UNCHANGED <<merged_rows, out_results, out_unmatched>>
              ELSE /\ out_unmatched' =
                        IF r.unmatched # <<>>
                        THEN (<<cur, fname>> :> r.unmatched) @@ out_unmatched
                        ELSE out_unmatched
                   /\ out_results' = (<<cur, fname>> :> drop_merge(r.merged)) @@ out_results
                   /\ merged_rows' = Append(merged_rows, drop_merge(r.merged))
    /\ UNCHANGED <<nraw, npass, dirs, pc, todo, cur, out_sample>>
    /\ UNCHANGED seqVars

\* ReadFails with the exception caught and the file skipped.
ReadFails_Skipped ==
    /\ pc = "sample"
    /\ txt_files # <<>>
    /\ ~dirs[cur].files[Head(txt_files)].readable
    /\ txt_files' = Tail(txt_files)
    /\ UNCHANGED <<nraw, npass, dirs, pc, todo, cur, merged_rows, last,
                   out_results, out_unmatched, out_sample>>
    /\ UNCHANGED seqVars

\* Path(filepath).read_text raises (the file cannot be opened or read):
\* nothing catches the exception, in parse_file, process_sample or main, and
\* the program ends.
ReadFails ==
    /\ pc = "sample"
    /\ txt_files # <<>>
    /\ ~dirs[cur].files[Head(txt_files)].readable
    /\ pc' = "crashed"
    /\ UNCHANGED <<nraw, npass, dirs, todo, cur, txt_files, merged_rows, last,
                   out_results, out_unmatched, out_sample>>
    /\ UNCHANGED seqVars

\* After the loop: the sample-level file, when some file gave a table.
FinishSample ==
    /\ pc = "sample"
    /\ txt_files = <<>>
    /\ out_sample' = IF merged_rows # <<>>
                     THEN (cur :> Concat(merged_rows)) @@ out_sample
                     ELSE out_sample
    /\ pc' = "main"
    /\ UNCHANGED <<nraw, npass, dirs, todo, cur, txt_files, merged_rows, last,
                   out_results, out_unmatched>>
    /\ UNCHANGED seqVars

\* main's loop over sample_dirs is over.
MainDone ==
    /\ pc = "main"
    /\ todo = {}
    /\ pc' = "done"
    /\ UNCHANGED <<nraw, npass, dirs, todo, cur, txt_files, merged_rows, last,
                   out_results, out_unmatched, out_sample>>
    /\ UNCHANGED seqVars

Next == EnterSample \/ ProcessFile \/ ReadFails \/ FinishSample \/ MainDone

----------------------------------------------------------------------------
(* The inputs.                                                             *)

MaxQ == 2       \* query-cluster lines of a report
MaxH == 2       \* hit lines of a report
MaxTail == 3    \* characters after 'BGC' in a block header
MaxCells == 7   \* cells of a generated hit line
MaxLines == 4   \* lines of a free-form report

\* Sequences over S of length lo..hi.
SeqsOf(S, lo, hi) == UNION {[1..k -> S] : k \in lo..hi}

Unreadable == [readable |-> FALSE, lines |-> <<>>]
Report(lines) == [readable |-> TRUE, lines |-> lines]

BlankLine == <<>>
StartLine == <<">", ">">>
HeaderLine(tail) == <<"1", ".", SP, "B", "G", "C">> \o tail
SourceLine == <<KW_SOURCE, SP, "x">>
TypeLine == <<KW_TYPE, SP, "y">>
HitsHeader == <<KW_HITS, ":">>
QueryHeader == <<KW_QUERY>>
HitLine(g) == g \o <<TAB, "s", TAB, "9", TAB, "3", TAB, "8", TAB, "0">>
QueryLine(g, st) == g \o <<TAB>> \o st \o <<TAB, "9", TAB, "+", TAB, "k">>

\* A report with a query-cluster table and one '>>' block.
OneBlock(qlines, header, hlines) ==
    <<QueryHeader>> \o qlines \o <<BlankLine, StartLine, header, SourceLine, TypeLine, HitsHeader>>
        \o hlines \o <<BlankLine>>

\* Reports that differ in their query-cluster rows and hit rows.  The third
\* identifier needs four passes of normalize_gene_id to lose its tail.
QueryIds == {<<"a">>, <<"a", ",">>, <<"a", US, ",", US, ",", US, ",">>}
HitIds == {<<"a">>, <<"c">>}
QueryLines == {QueryLine(g, st) : g \in QueryIds, st \in {<<"1">>, <<"2">>}}
HitLines == {HitLine(g) : g \in HitIds}
MergeFiles ==
    {Report(OneBlock(q, HeaderLine(<<"1", ".", "5">>), h)) :
        q \in SeqsOf(QueryLines, 0, MaxQ), h \in SeqsOf(HitLines, 0, MaxH)}

\* Reports that differ in the identifier of their block header.
IdChars == {"1", ".", "-", "a"}
IdFiles ==
    {Report(OneBlock(<<QueryLine(<<"a">>, <<"1">>)>>, HeaderLine(t), <<HitLine(<<"a">>)>>)) :
        t \in SeqsOf(IdChars, 0, MaxTail)}

\* Hit lines of k cells, cell i being the digit i, at most one of them with
\* an inner space (and the first possibly quoted), each gap a tab or a space.
CellDigit(i) == <<"1", "2", "3", "4", "5", "6", "7", "8", "9">>[i]
CellText(i, v) ==
    IF v = i THEN <<CellDigit(i), SP, "x">>
    ELSE IF v = -1 /\ i = 1 THEN <<DQ, SP, CellDigit(i), ",">>
    ELSE <<CellDigit(i)>>

RECURSIVE JoinCells(_, _, _, _)
JoinCells(k, v, seps, i) ==
    IF i > k THEN <<>>
    ELSE CellText(i, v) \o (IF i < k THEN <<seps[i]>> ELSE <<>>) \o JoinCells(k, v, seps, i + 1)

CellLines ==
    UNION {{JoinCells(k, v, seps, 1) : v \in (-1)..k, seps \in [1..(k - 1) -> {TAB, SP}]} :
              k \in (HitFields - 1)..MaxCells}
HitFiles ==
    {Report(OneBlock(<<>>, HeaderLine(<<"1">>), <<ln, HitLine(<<"a">>)>>)) : ln \in CellLines}

\* Free-form reports: any lines, with or without block starts.
FreeLines ==
    {StartLine, HeaderLine(<<"1">>), HitsHeader, HitLine(<<"a">>), BlankLine, SourceLine}
FreeFiles == {Report(ls) : ls \in SeqsOf(FreeLines, 0, MaxLines)}

ReportFiles == MergeFiles \cup IdFiles \cup HitFiles \cup FreeFiles \cup {Unreadable}

\* The reports of the samples of a whole run.
SmallFiles ==
    {Unreadable,
     Report(<<HitsHeader, HitLine(<<"a">>)>>),
     Report(OneBlock(<<QueryLine(<<"a">>, <<"1">>)>>, HeaderLine(<<"1">>), <<HitLine(<<"a">>)>>)),
     Report(OneBlock(<<>>, HeaderLine(<<"2">>), <<HitLine(<<"c">>), HitLine(<<"a">>)>>))}

SampleNames == {"s1", "s2"}
FileNames == {<<"c", "1", "0", ".txt">>, <<"c", "2", ".txt">>}

PartialFns(D, R) == UNION {[d -> R] : d \in SUBSET D}

SampleDirs ==
    {[subdir |-> "absent", files |-> <<>>]}
        \cup {[subdir |-> sd, files |-> fs] :
                 sd \in {"named", "lower"}, fs \in PartialFns(FileNames, SmallFiles)}

\* No FASTA tool runs.
InitSeqsIdle ==
    /\ args = <<>>
    /\ fa_pc = "idle"
    /\ orthogroups = <<>>
    /\ completed = <<>>
    /\ expected = <<>>
    /\ ortholog_files = <<>>
    /\ output_file = None

InitRun ==
    /\ InitSeqsIdle
    /\ pc = "main"
    /\ todo = DOMAIN dirs
    /\ cur = "-"
    /\ txt_files = <<>>
    /\ merged_rows = <<>>
    /\ last = NoLast
    /\ out_results = <<>>
    /\ out_unmatched = <<>>
    /\ out_sample = <<>>
    /\ nraw = <<>>
    /\ npass = <<>>

\* A whole run over two samples, or a run over one sample with one report.
Init ==
    /\ \/ dirs \in [SampleNames -> SampleDirs]
       \/ \E f \in ReportFiles :
            dirs = [s \in {"s1"} |->
                       [subdir |-> "named", files |-> [n \in {<<"c", "2", ".txt">>} |-> f]]]
    /\ InitRun

Spec == Init /\ [][Next]_vars

----------------------------------------------------------------------------
(* normalize_gene_id as a pure function: the raw identifier is drawn from  *)
(* bounded strings, and each step applies one more pass to the last result,*)
(* as the pipeline does (lines 46/167, 79/215, 217/272, 274).              *)

MaxIdLen == 4
MaxPasses == 4

NormChars == {"a", SP, TAB, US, DQ, ","}

InitPipeIdle ==
    /\ dirs = <<>>
    /\ pc = "idle"
    /\ todo = {}
    /\ cur = "-"
    /\ txt_files = <<>>
    /\ merged_rows = <<>>
    /\ last = NoLast
    /\ out_results = <<>>
    /\ out_unmatched = <<>>
    /\ out_sample = <<>>

InitNorm ==
    /\ nraw \in Strs(NormChars, MaxIdLen)
    /\ npass = <<>>
    /\ InitPipeIdle
    /\ InitSeqsIdle

NormalizePass ==
    /\ pc = "idle"
    /\ Len(npass) < MaxPasses
    /\ npass' = Append(npass, normalize_gene_id(IF npass = <<>> THEN nraw ELSE npass[Len(npass)]))
    /\ UNCHANGED <<nraw, pipeVars, seqVars>>

NextNorm == NormalizePass

SpecNorm == InitNorm /\ [][NextNorm]_vars

----------------------------------------------------------------------------
(* Reports made of several blocks, for the block structure of parse_file.  *)
(* Every hit line of such a report carries the number of its line as its   *)
(* subject gene, so that a row of a table tells the line it came from.     *)

MaxBlocks == 2   \* blocks of a structured report
MaxFree == 4     \* lines of a free-form report with numbered hit lines
MaxTable == 3    \* lines of a query-cluster table of any lines
MaxMeta == 2     \* metadata lines of a block header

\* str(n) for a line number.
RECURSIVE Dec(_)
Dec(n) ==
    LET d == <<"0", "1", "2", "3", "4", "5", "6", "7", "8", "9">>
    IN  IF n < 10 THEN <<d[n + 1]>> ELSE Dec(n \div 10) \o <<d[(n % 10) + 1]>>

\* Placeholders for the hit lines of a report, replaced by Numbered.
TabHitMark == <<"<hit>">>
WsHitMark == <<"<hit ws>">>

\* A hit line with tab-delimited fields, and one with fields that only
\* whitespace separates; n is the number of the line.
TabHit(n) == <<"a", TAB>> \o Dec(n) \o <<TAB, "9", TAB, "3", TAB, "8", TAB, "0">>
WsHit(n) == <<"c", SP>> \o Dec(n) \o <<SP, "9", SP, SP, "3", TAB, "8", SP, "0", SP, "7">>

Numbered(ls) ==
    [i \in 1..Len(ls) |->
        IF ls[i] = TabHitMark THEN TabHit(i)
        ELSE IF ls[i] = WsHitMark THEN WsHit(i)
        ELSE ls[i]]

\* A line that is neither blank nor a row: two tokens, no tab.
OddLine == <<"x", SP, "y">>
\* A line of whitespace.
SpaceLine == <<SP, TAB>>
\* A metadata line: a label and the text after it.
LabelLine(kw, v) == <<kw>> \o v

\* The query-cluster table put before the blocks: none, or one whose two
\* records get the same key at the join.
QueryTables ==
    {<<>>,
     <<QueryHeader, QueryLine(<<"a", US, ",", US, ",", US, ",">>, <<"1">>),
       QueryLine(<<"a">>, <<"2">>), BlankLine>>}

\* A block: its '>>' line, its header lines and its other lines: nothing;
\* a table; an identifier, a name, a type and a table; other metadata and
\* a table with lines that are no rows; a table that a line of the
\* ordinal-plus-BGC pattern ends, with a second hits header after it.
BlockShapes ==
    {<<StartLine>>,
     <<StartLine, HitsHeader, TabHitMark>>,
     <<StartLine, HeaderLine(<<"1", ".", "5">>), LabelLine(KW_SOURCE, <<SP, "x">>),
       LabelLine(KW_TYPE, <<"y">>), HitsHeader, TabHitMark>>,
     <<StartLine, LabelLine(KW_SOURCE, <<SP, "z">>), LabelLine(KW_NPROT, <<SP, "3">>),
       LabelLine(KW_CUM, <<SP, "4">>), HitsHeader, WsHitMark, OddLine, TabHitMark, SpaceLine,
       TabHitMark>>,
     <<StartLine, OddLine, HitsHeader, TabHitMark, HeaderLine(<<"-", "1">>), TabHitMark,
       HitsHeader, TabHitMark>>}

BlockFiles ==
    {Report(Numbered(q \o Concat(bs))) :
        q \in QueryTables, bs \in SeqsOf(BlockShapes, 1, MaxBlocks)}

\* Free-form reports with numbered hit lines: any lines, with block starts
\* of either kind (a '>>' line may be indented), of both kinds or of none.
NumberedFiles ==
    {Report(Numbered(ls)) :
        ls \in SeqsOf({StartLine, <<SP, ">", ">", SP, "x">>, HeaderLine(<<"1">>), HitsHeader,
                       TabHitMark}, 0, MaxFree)}

\* One block whose header is any few metadata lines; the identifier of
\* '2. GCB7.1' matches the first identifier pattern only, that of
\* '1. BGC-1' the second only.
MetaFiles ==
    {Report(Numbered(<<StartLine>> \o m \o <<HitsHeader, TabHitMark>>)) :
        m \in SeqsOf({HeaderLine(<<"1">>), HeaderLine(<<"2", ".", "5">>),
                      <<"2", ".", SP, "G", "C", "B", "7", ".", "1">>, HeaderLine(<<"-", "1">>),
                      LabelLine(KW_SOURCE, <<SP, "x">>), LabelLine(KW_SOURCE, <<SP, "z">>),
                      LabelLine(KW_TYPE, <<"y">>), LabelLine(KW_TYPE, <<SP, "w">>),
                      LabelLine(KW_NPROT, <<SP, "3">>), LabelLine(KW_NPROT, <<SP, "4">>),
                      LabelLine(KW_CUM, <<SP, "4">>), LabelLine(KW_CUM, <<SP, "5">>)},
                     0, MaxMeta)}

\* One block with two 'Source:' lines around its MetaWindow-th line.
WindowFiles ==
    {Report(Numbered(<<StartLine>> \o [i \in 1..k |-> OddLine]
                        \o <<LabelLine(KW_SOURCE, <<SP, "x">>),
                             LabelLine(KW_SOURCE, <<SP, "z">>), HitsHeader, TabHitMark>>)) :
        k \in (MetaWindow - 4)..(MetaWindow - 1)}

\* Reports whose query-cluster table has lines of every shape: 5 tab
\* fields, 5 or more tokens (with fewer than 5 tab fields), fewer tokens,
\* and the lines that end the table; then a block, after a blank line or
\* right after the table.
TableFiles ==
    {Report(Numbered(<<OddLine, QueryHeader>> \o t \o <<StartLine, HitsHeader, TabHitMark>>)) :
        t \in SeqsOf({QueryLine(<<"a", ",">>, <<"1">>),
                      <<"d", SP, "e", TAB, "1", TAB, "9", TAB, "+", TAB, SP, "k", SP, SP, "l",
                        TAB, "m">>,
                      <<SP, DQ, "b", SP, SP, "2", TAB, "9", SP, "+", SP, "k", SP, SP, "l",
                        TAB, "m", SP>>,
                      OddLine, BlankLine, <<KW_SIG>>, <<SP, KW_DETAILS, SP, "x">>},
                     0, MaxTable)}

StructuredFiles ==
    BlockFiles \cup NumberedFiles \cup MetaFiles \cup WindowFiles \cup TableFiles
        \cup {Unreadable}

\* A run over one sample, with one structured report or none.
InitBlocks ==
    /\ dirs \in [{"s1"} ->
                    {[subdir |-> "absent", files |-> <<>>], [subdir |-> "lower", files |-> <<>>]}
                        \cup {[subdir |-> "named", files |-> [n \in {<<"c", "2", ".txt">>} |-> f]] :
                                 f \in StructuredFiles}]
    /\ InitRun

SpecBlocks == InitBlocks /\ [][Next]_vars

----------------------------------------------------------------------------
(* complete_missing_species.py and combine_seqs.py.                        *)
(*                                                                         *)
(* A dict is the sequence of its [k, v] items in insertion order, no key   *)
(* twice.  A file is the sequence of its lines.                            *)

Keys(d) == {d[i].k : i \in 1..Len(d)}

\* d[k] = v: the value replaced where the key is, a new item otherwise.
DictSet(d, k, v) ==
    IF k \in Keys(d)
    THEN [i \in 1..Len(d) |-> IF d[i].k = k THEN [k |-> k, v |-> v] ELSE d[i]]
    ELSE Append(d, [k |-> k, v |-> v])

\* 'if x:' for a str or None.
Truthy(x) == x # None /\ x # <<>>

\* header.split("_", 1)[0]
SpeciesOf(header) ==
    IF FirstIn(header, {"_"}) = 0 THEN header
    ELSE SubSeq(header, 1, FirstIn(header, {"_"}) - 1)

\* The species of the lines of a species file, in order: each line stripped,
\* without its leading '>', dropped when empty (read_species_list; the
\* same lines give the keys of read_species).
RECURSIVE read_species_list(_)
read_species_list(lines) ==
    IF lines = <<>> THEN <<>>
    ELSE LET line == Strip(Head(lines))
             sp == IF StartsWith(line, <<">">>) THEN Tail(line) ELSE line
         IN  (IF sp # <<>> THEN <<sp>> ELSE <<>>) \o read_species_list(Tail(lines))

\* seqs[current_header] = "".join(current_seq), when there is a header.
SaveRecord(seqs, current_header, current_seq) ==
    IF Truthy(current_header) THEN DictSet(seqs, current_header, current_seq) ELSE seqs

RECURSIVE GetLoop(_, _, _, _)
GetLoop(lines, seqs, current_header, current_seq) ==
    IF lines = <<>> THEN SaveRecord(seqs, current_header, current_seq)
    ELSE IF StartsWith(Strip(Head(lines)), <<">">>)
    THEN GetLoop(Tail(lines), SaveRecord(seqs, current_header, current_seq),
                 Tail(Strip(Head(lines))), <<>>)
    ELSE GetLoop(Tail(lines), seqs, current_header, current_seq \o Strip(Head(lines)))

get_sequences(lines) == GetLoop(lines, <<>>, None, <<>>)

max_seq_length(seqs) ==
    IF seqs = <<>> THEN 0
    ELSE CHOOSE n \in {Len(seqs[i].v) : i \in 1..Len(seqs)} :
            \A i \in 1..Len(seqs) : Len(seqs[i].v) <= n

\* seq[i:i+line_length] for i in range(0, len(seq), line_length), line_length > 0.
RECURSIVE Wrap(_, _)
Wrap(seq, line_length) ==
    IF seq = <<>> THEN <<>>
    ELSE IF Len(seq) <= line_length THEN <<seq>>
    ELSE <<SubSeq(seq, 1, line_length)>>
            \o Wrap(SubSeq(seq, line_length + 1, Len(seq)), line_length)

\* The lines write_fasta writes: the records of seqs, then one record of
\* '-' for each missing species.
write_fasta(seqs, missing, max_length, line_length) ==
    Concat([i \in 1..Len(seqs) |-> <<<<">">> \o seqs[i].k>> \o Wrap(seqs[i].v, line_length)])
        \o Concat([i \in 1..Len(missing) |->
                      <<<<">">> \o missing[i] \o <<"_", "0", "0", "|">>>>
                          \o Wrap([j \in 1..max_length |-> "-"], line_length)])

\* missing_species: the listed species that no header of seqs begins with.
missing_species_of(species_list, seqs) ==
    SelectSeq(species_list, LAMBDA sp : sp \notin {SpeciesOf(seqs[i].k) : i \in 1..Len(seqs)})

\* process_files, one iteration of its loop over the orthogroup files (in
\* sorted order).  The optional report of the missing species, which only
\* lists what the output files show, is left out.
ProcessOrthogroup ==
    /\ fa_pc = "complete"
    /\ orthogroups # <<>>
    /\ \E species_list \in {read_species_list(args.species_lines)} :
       \E seqs \in {get_sequences(args.files[Head(orthogroups)])} :
           completed' = (Head(orthogroups) :>
                            write_fasta(seqs, missing_species_of(species_list, seqs),
                                        max_seq_length(seqs), args.line_length)) @@ completed
    /\ orthogroups' = Tail(orthogroups)
    /\ UNCHANGED <<nraw, npass, pipeVars, args, fa_pc, expected, ortholog_files, output_file>>

\* process_files after its loop: validate_output reads the output files
\* back and prints what it finds.
ValidateOutput ==
    /\ fa_pc = "complete"
    /\ orthogroups = <<>>
    /\ fa_pc' = "done"
    /\ UNCHANGED <<nraw, npass, pipeVars, args, orthogroups, completed, expected,
                   ortholog_files, output_file>>

\* read_species: the dict of the listed species, each with an empty sequence.
RECURSIVE DictOf(_, _)
DictOf(species, d) ==
    IF species = <<>> THEN d ELSE DictOf(Tail(species), DictSet(d, Head(species), <<>>))

read_species(lines) == DictOf(read_species_list(lines), <<>>)

\* SaveSpecies adding the species it does not know.
SaveSpecies_AnySpecies(exp, current_species, current_sequence) ==
    IF ~Truthy(current_species) THEN exp
    ELSE IF current_species \in Keys(exp)
    THEN [i \in 1..Len(exp) |->
             IF exp[i].k = current_species
             THEN [k |-> exp[i].k, v |-> exp[i].v \o current_sequence] ELSE exp[i]]
    ELSE Append(exp, [k |-> current_species, v |-> current_sequence])

\* expected[current_species] += "".join(current_sequence), for a species
\* that is expected.
SaveSpecies(exp, current_species, current_sequence) ==
    IF Truthy(current_species) /\ current_species \in Keys(exp)
    THEN [i \in 1..Len(exp) |->
             IF exp[i].k = current_species
             THEN [k |-> exp[i].k, v |-> exp[i].v \o current_sequence] ELSE exp[i]]
    ELSE exp

\* The loop of concatenate_sequences over the lines of one ortholog file.
RECURSIVE ConcatLoop(_, _, _, _)
ConcatLoop(lines, exp, current_species, current_sequence) ==
    IF lines = <<>> THEN SaveSpecies(exp, current_species, current_sequence)
    ELSE IF StartsWith(Strip(Head(lines)), <<">">>)
    THEN ConcatLoop(Tail(lines), SaveSpecies(exp, current_species, current_sequence),
                    SpeciesOf(Tail(Strip(Head(lines)))), <<>>)
    ELSE ConcatLoop(Tail(lines), exp, current_species,
                    IF Truthy(current_species) THEN current_sequence \o Strip(Head(lines))
                    ELSE current_sequence)

\* The lines write_output writes: the species in sorted order, each with
\* its sequence, wrapped when line_length > 0 and on one line otherwise.
write_output(exp, line_length) ==
    Concat([i \in 1..Len(exp) |->
               <<<<">">> \o Sorted(Keys(exp))[i]>>
                   \o (IF line_length > 0
                       THEN Wrap((CHOOSE e \in {exp[j] : j \in 1..Len(exp)} :
                                     e.k = Sorted(Keys(exp))[i]).v, line_length)
                       ELSE <<(CHOOSE e \in {exp[j] : j \in 1..Len(exp)} :
                                     e.k = Sorted(Keys(exp))[i]).v>>)])

\* concatenate_sequences, one iteration of its loop over the ortholog files.
ReadOrtholog ==
    /\ fa_pc = "combine"
    /\ ortholog_files # <<>>
    /\ expected' = ConcatLoop(args.files[Head(ortholog_files)], expected, None, <<>>)
    /\ ortholog_files' = Tail(ortholog_files)
    /\ UNCHANGED <<nraw, npass, pipeVars, args, fa_pc, orthogroups, completed, output_file>>

\* write_output (check_lengths, after it, prints only).
WriteOutput ==
    /\ fa_pc = "combine"
    /\ ortholog_files = <<>>
    /\ output_file' = write_output(expected, args.line_length)
    /\ fa_pc' = "done"
    /\ UNCHANGED <<nraw, npass, pipeVars, args, orthogroups, completed, expected,
                   ortholog_files>>

NextSeqs == ProcessOrthogroup \/ ValidateOutput \/ ReadOrtholog \/ WriteOutput

MaxFaLines == 3   \* lines of the first FASTA file of a run

\* The arguments of a run: a species file (the second lists a species
\* twice), a FASTA file of any lines (headers with and without '_', an
\* empty header, sequence lines) and a second one.  line_length is positive
\* for complete_missing_species (60 by default) and 0, no wrapping, or
\* positive for combine_seqs.
SeqArgs(line_lengths) ==
    {[species_lines |-> sl, files |-> <<f, g>>, line_length |-> n] :
        sl \in {<<<<">", "s", "2">>, <<">", "s", "1", "0">>, <<"s", "1", SP>>>>,
                <<<<">", "s", "1">>, <<>>, <<">", "s", "1">>>>},
        f \in SeqsOf({<<">", "s", "1", "_", "1", "|">>, <<SP, ">", "s", "2">>, <<">">>,
                      <<"A", "C", SP>>, <<"G">>}, 0, MaxFaLines),
        g \in {<<<<">", "s", "1", "_", "1", "|">>, <<"G">>>>,
               <<<<"C">>, <<">", "s", "2", "_", "7">>, <<>>, <<"A">>, <<"G", "A">>,
                 <<">", "s", "1", "0", "_">>, <<">", "s", "1", "_", "3", "|">>, <<"C">>,
                 <<">", "s", "1", "_", "1", "|">>, <<"G">>>>},
        n \in line_lengths}

InitSeqs ==
    /\ nraw = <<>>
    /\ npass = <<>>
    /\ InitPipeIdle
    /\ \/ /\ fa_pc = "complete"
          /\ args \in SeqArgs({2})
          /\ expected = <<>>
       \/ /\ fa_pc = "combine"
          /\ args \in SeqArgs({0, 2})
          /\ expected = read_species(args.species_lines)
    /\ orthogroups = <<1, 2>>
    /\ ortholog_files = <<1, 2>>
    /\ completed = <<>>
    /\ output_file = None

SpecSeqs == InitSeqs /\ [][NextSeqs]_vars

----------------------------------------------------------------------------
(* The properties.                                                         *)

\* The lines of the report the last iteration processed.
LastLines == dirs[last.sample].files[last.fname].lines
Processed == last.fname # None
LastKey == <<last.sample, last.fname>>

\* The key the join compares for a row of parse_file's query table.
JoinKey(q) == normalize_gene_id(q.query_gene)

QuerySide(r) == <<r.start, r.stop, r.strand, r.annotation>>

\* C1: the merged table of a report has exactly as many rows as its hit
\* table: the join keeps every hit row once, whatever the query records.
C1_MergeKeepsCardinality == Len(last.merged) = Len(last.hits_df)

\* C2: normalize_gene_id is idempotent: a second pass changes nothing.
C2_NormalizeIdempotent == Len(npass) >= 2 => npass[2] = npass[1]

\* C3: the result of normalize_gene_id has no leading or trailing
\* whitespace, no CR, LF or TAB, no quote, and no trailing ',', ';' or ':'.
C3_NormalizeClean ==
    Len(npass) >= 1 =>
        /\ npass[1] # <<>> =>
              /\ npass[1][1] \notin {SP, TAB, CR, LF, US}
              /\ npass[1][Len(npass[1])] \notin {SP, TAB, CR, LF, US}
              /\ npass[1][Len(npass[1])] \notin {",", ";", ":"}
        /\ \A i \in 1..Len(npass[1]) : npass[1][i] \notin {CR, LF, TAB, DQ, SQ}

\* C4: the query-side fields of every merged row are those of the first
\* query-cluster record, in table order, whose key equals the row's
\* query_gene, and are all null when no record has that key.
C4_FirstQueryRecordWins ==
    \A i \in 1..Len(last.merged) :
        LET r == last.merged[i]
            js == {j \in 1..Len(last.query_df) : JoinKey(last.query_df[j]) = r.query_gene}
        IN  IF js = {} THEN QuerySide(r) = <<None, None, None, None>>
            ELSE QuerySide(r) =
                    QuerySide(last.query_df[CHOOSE j \in js : \A k \in js : j <= k])

\* C5: for a report with hits, the unmatched table holds exactly the merged
\* rows whose query_gene is the key of no query-cluster record; those rows
\* are in the results file with null query-side fields; and the unmatched
\* file is written exactly when there is such a row.
C5_KeyOfNoRecord(r) ==
    \A j \in 1..Len(last.query_df) : JoinKey(last.query_df[j]) # r.query_gene

C5_UnmatchedExact ==
    (Processed /\ last.hits_df # <<>>) =>
        /\ last.unmatched = SelectSeq(last.merged, C5_KeyOfNoRecord)
        /\ \A i \in 1..Len(last.merged) :
              C5_KeyOfNoRecord(last.merged[i]) =>
                  /\ QuerySide(last.merged[i]) = <<None, None, None, None>>
                  /\ QuerySide(out_results[LastKey][i]) = <<None, None, None, None>>
        /\ Len(out_results[LastKey]) = Len(last.merged)
        /\ (LastKey \in DOMAIN out_unmatched) <=> (\E i \in 1..Len(last.merged) :
                                                    C5_KeyOfNoRecord(last.merged[i]))
        /\ LastKey \in DOMAIN out_unmatched =>
              out_unmatched[LastKey] = SelectSeq(last.merged, C5_KeyOfNoRecord)

C5_Witness ==
    /\ Processed
    /\ LastKey \in DOMAIN out_unmatched
    /\ \E i, j \in 1..Len(last.merged) :
          /\ C5_KeyOfNoRecord(last.merged[i])
          /\ ~C5_KeyOfNoRecord(last.merged[j])

\* C6: a report with no line starting with '>>' and no line matching the
\* ordinal-plus-BGC pattern gives an empty hit table; processing it writes
\* no results file and no unmatched file and adds nothing to the tables
\* accumulated for the sample-level file.
C6_NoStart(lines) ==
    \A i \in 1..Len(lines) :
        /\ ~StartsWith(Strip(lines[i]), <<">", ">">>)
        /\ ~MatchFallback(Strip(lines[i]))

C6_AtUnmarkedReport ==
    /\ pc = "sample"
    /\ txt_files # <<>>
    /\ dirs[cur].files[Head(txt_files)].readable
    /\ C6_NoStart(dirs[cur].files[Head(txt_files)].lines)

C6_NoMarkersNoOutput ==
    [][C6_AtUnmarkedReport =>
          /\ last'.fname = Head(txt_files)
          /\ last'.hits_df = <<>>
          /\ out_results' = out_results
          /\ out_unmatched' = out_unmatched
          /\ merged_rows' = merged_rows
          /\ out_sample' = out_sample]_vars

\* A report without block starts that does hold a hits header and a hit line.
C6_Witness ==
    /\ Processed
    /\ C6_NoStart(LastLines)
    /\ \E i \in 1..Len(LastLines) : StartsWith(LastLines[i], <<KW_HITS>>)
    /\ \E i \in 1..Len(LastLines) : Len(SplitTab(LastLines[i])) >= HitFields
    /\ LastKey \notin DOMAIN out_results

\* C7: the sample-level table is the concatenation of the results tables
\* written for the sample's files, in ascending order of file name; its
\* length is the sum of their lengths; it exists only if there is one.
C7_Written(s) == {f \in DOMAIN dirs[s].files : <<s, f>> \in DOMAIN out_results}

RECURSIVE C7_ConcatAscending(_, _)
C7_ConcatAscending(s, fs) ==
    IF fs = {} THEN <<>>
    ELSE LET f == CHOOSE x \in fs : \A y \in fs \ {x} : LexLess(x, y)
         IN  out_results[<<s, f>>] \o C7_ConcatAscending(s, fs \ {f})

RECURSIVE C7_SumLen(_, _)
C7_SumLen(s, fs) ==
    IF fs = {} THEN 0
    ELSE LET f == CHOOSE x \in fs : TRUE
         IN  Len(out_results[<<s, f>>]) + C7_SumLen(s, fs \ {f})

C7_SampleTableIsConcat ==
    \A s \in DOMAIN out_sample :
        /\ C7_Written(s) # {}
        /\ out_sample[s] = C7_ConcatAscending(s, C7_Written(s))
        /\ Len(out_sample[s]) = C7_SumLen(s, C7_Written(s))

C7_Witness ==
    \E s \in DOMAIN out_sample :
        \E f, g \in C7_Written(s) :
            /\ f # g
            /\ out_results[<<s, f>>] # out_results[<<s, g>>]

\* C8 as stated: a report that cannot be read is skipped; every other
\* report with hits still gets its results file, and every sample with
\* such a report its sample-level file.
C8_HasHits(f) == f.readable /\ process_report(f.lines).hits_df # <<>>

C8_ReadFailureIsolated ==
    pc \in {"done", "crashed"} =>
        \A s \in DOMAIN dirs :
            dirs[s].subdir # "absent" =>
                /\ \A f \in DOMAIN dirs[s].files :
                      C8_HasHits(dirs[s].files[f]) => <<s, f>> \in DOMAIN out_results
                /\ (\E f \in DOMAIN dirs[s].files : C8_HasHits(dirs[s].files[f]))
                      => s \in DOMAIN out_sample

\* C8 as amended: a report that cannot be read ends the run.  Its sample
\* gets no sample-level file and no results for the reports sorted after
\* it, the run never completes, the samples not yet started get nothing;
\* the results of the reports processed before it stay written.
C8_NoOutput(s) ==
    /\ s \notin DOMAIN out_sample
    /\ \A f \in DOMAIN dirs[s].files :
          <<s, f>> \notin DOMAIN out_results /\ <<s, f>> \notin DOMAIN out_unmatched

C8_ReadFailureAborts ==
    /\ \A s \in DOMAIN dirs :
          \A f \in DOMAIN dirs[s].files :
              (dirs[s].subdir # "absent" /\ ~dirs[s].files[f].readable) =>
                  /\ pc # "done"
                  /\ s \notin DOMAIN out_sample
                  /\ \A g \in DOMAIN dirs[s].files :
                        LexLess(f, g) => <<s, g>> \notin DOMAIN out_results
    /\ pc = "crashed" =>
          /\ \A t \in todo : C8_NoOutput(t)
          /\ \A g \in DOMAIN dirs[cur].files :
                (LexLess(g, Head(txt_files)) /\ C8_HasHits(dirs[cur].files[g]))
                    => <<cur, g>> \in DOMAIN out_results

C8_Witness ==
    /\ pc = "crashed"
    /\ Len(txt_files) = 2
    /\ C8_HasHits(dirs[cur].files[txt_files[2]])
    /\ \E t \in todo : \E f \in DOMAIN dirs[t].files : C8_HasHits(dirs[t].files[f])

\* C9: a hit line with at least 6 tab-delimited fields gives the row of its
\* first six tab fields (the first normalized, the others stripped), also
\* when a field has inner spaces; its whitespace tokens are used only when
\* it has fewer than 6 tab fields (and at least 6 tokens).
C9_Six(r) ==
    <<r.query_gene, r.subject_gene, r.pct_identity, r.blast_score, r.pct_coverage, r.evalue>>

C9_TabSix(ln) ==
    <<normalize_gene_id(SplitTab(ln)[1]), Strip(SplitTab(ln)[2]), Strip(SplitTab(ln)[3]),
      Strip(SplitTab(ln)[4]), Strip(SplitTab(ln)[5]), Strip(SplitTab(ln)[6])>>

C9_WsSix(ln) ==
    <<normalize_gene_id(SplitWs(ln)[1]), SplitWs(ln)[2], SplitWs(ln)[3],
      SplitWs(ln)[4], SplitWs(ln)[5], SplitWs(ln)[6]>>

C9_Expected(ln) ==
    IF Len(SplitTab(ln)) >= 6 THEN <<C9_TabSix(ln)>>
    ELSE IF Len(SplitWs(ln)) >= 6 THEN <<C9_WsSix(ln)>>
    ELSE <<>>

\* The hit lines of a block: those after its first hits header, up to the
\* first blank line or block start.
C9_HitLines(block) ==
    LET k == FirstLineWith(block, KW_HITS)
    IN  IF k = 0 THEN {}
        ELSE {i \in (k + 1)..Len(block) : \A j \in (k + 1)..i : ~HitStop(block[j])}

RECURSIVE C9_ExpectedFrom(_, _, _)
C9_ExpectedFrom(block, is, i) ==
    IF i > Len(block) THEN <<>>
    ELSE (IF i \in is THEN C9_Expected(block[i]) ELSE <<>>)
             \o C9_ExpectedFrom(block, is, i + 1)

C9_TabFieldsFirst ==
    \A b \in 1..Len(last.blocks) :
        [i \in 1..Len(last.blocks[b].rows) |-> C9_Six(last.blocks[b].rows[i])]
            = C9_ExpectedFrom(last.blocks[b].block, C9_HitLines(last.blocks[b].block), 1)

\* A row from a line with 6 tab fields whose first six tokens are other values.
C9_Witness ==
    \E b \in 1..Len(last.blocks) :
        /\ last.blocks[b].rows # <<>>
        /\ \E i \in C9_HitLines(last.blocks[b].block) :
              LET ln == last.blocks[b].block[i]
              IN  /\ Len(SplitTab(ln)) >= 6
                  /\ Len(SplitWs(ln)) >= 6
                  /\ C9_TabSix(ln) # C9_WsSix(ln)
                  /\ C9_Six(last.blocks[b].rows[1]) = C9_TabSix(ln)

\* C10: the cluster identifier on a hit row is the identifier captured from
\* the block header cut at its first '.'; without a '.' it is unchanged.
C10_CutAtFirstDot(stored, captured) ==
    /\ \A i \in 1..Len(stored) : stored[i] # "."
    /\ Len(stored) <= Len(captured)
    /\ stored = SubSeq(captured, 1, Len(stored))
    /\ Len(stored) = Len(captured) \/ captured[Len(stored) + 1] = "."

C10_IdCutAtFirstDot ==
    \A b \in 1..Len(last.blocks) :
        \A i \in 1..Len(last.blocks[b].rows) :
            IF last.blocks[b].bgc_id = None
            THEN last.blocks[b].rows[i].BCG_identifier = None
            ELSE C10_CutAtFirstDot(last.blocks[b].rows[i].BCG_identifier, last.blocks[b].bgc_id)

\* A captured identifier with two dots, and one with none, on written rows.
C10_Dots(id) == Cardinality({i \in 1..Len(id) : id[i] = "."})

C10_Witness ==
    \E b \in 1..Len(last.blocks) :
        /\ last.blocks[b].rows # <<>>
        /\ last.blocks[b].bgc_id # None
        /\ C10_Dots(last.blocks[b].bgc_id) = 2
        /\ last.blocks[b].bgc_id[Len(last.blocks[b].bgc_id)] # "."
        /\ LastKey \in DOMAIN out_results

----------------------------------------------------------------------------
(* The block structure of a report (SpecBlocks).                           *)

\* The lines of the last report that are hit lines carrying subject gene g.
SourceLines(g) ==
    {n \in 1..Len(LastLines) : LastLines[n] \in {TabHit(n), WsHit(n)} /\ Dec(n) = g}

\* The line a row came from.
LineOfRow(r) == CHOOSE n \in SourceLines(r.subject_gene) : TRUE

\* The blocks whose span holds line n, and the blocks that gave a row of line n.
BlocksHolding(n) ==
    {b \in 1..Len(last.blocks) :
        /\ last.blocks[b].start_idx <= n
        /\ n < last.blocks[b].start_idx + Len(last.blocks[b].block)}

BlocksGiving(n) ==
    {b \in 1..Len(last.blocks) :
        \E i \in 1..Len(last.blocks[b].rows) : last.blocks[b].rows[i].subject_gene = Dec(n)}

\* C11: the rows of the hit table are in input order: each row comes from
\* one line of exactly one block, a row of an earlier block precedes a row
\* of a later block and the rows of a block follow the order of their
\* lines; the merged table (and the results file) keeps that order, every
\* hit row staying in it.
C11_FromOneBlock(t) ==
    \A i \in 1..Len(t) :
        /\ Cardinality(SourceLines(t[i].subject_gene)) = 1
        /\ Cardinality(BlocksHolding(LineOfRow(t[i]))) = 1
        /\ BlocksGiving(LineOfRow(t[i])) = BlocksHolding(LineOfRow(t[i]))

C11_BlockOf(r) == CHOOSE b \in BlocksHolding(LineOfRow(r)) : TRUE

C11_InputOrder ==
    Processed =>
        /\ C11_FromOneBlock(last.hits_df)
        /\ C11_FromOneBlock(last.merged)
        /\ \A i, j \in 1..Len(last.hits_df) :
              i < j => /\ LineOfRow(last.hits_df[i]) < LineOfRow(last.hits_df[j])
                       /\ C11_BlockOf(last.hits_df[i]) <= C11_BlockOf(last.hits_df[j])
        /\ \A i, j \in 1..Len(last.merged) :
              i < j => /\ LineOfRow(last.merged[i]) <= LineOfRow(last.merged[j])
                       /\ C11_BlockOf(last.merged[i]) <= C11_BlockOf(last.merged[j])
        /\ {LineOfRow(last.merged[i]) : i \in 1..Len(last.merged)}
              = {LineOfRow(last.hits_df[i]) : i \in 1..Len(last.hits_df)}
        /\ LastKey \in DOMAIN out_results =>
              [i \in 1..Len(out_results[LastKey]) |-> out_results[LastKey][i].subject_gene]
                  = [i \in 1..Len(last.merged) |-> last.merged[i].subject_gene]

\* Two blocks that each gave two rows or more, one hit row being twice in
\* the merged table.
C11_Witness ==
    /\ Processed
    /\ LastKey \in DOMAIN out_results
    /\ Len(last.merged) > Len(last.hits_df)
    /\ \E b, c \in 1..Len(last.blocks) :
          /\ b < c
          /\ Len(last.blocks[b].rows) >= 2
          /\ Len(last.blocks[c].rows) >= 2

\* A line that starts a block under one of the two patterns.
IsMarker(ln) == StartsWith(Strip(ln), <<">", ">">>) \/ MatchFallback(Strip(ln))

\* C12: the blocks of a report are contiguous and do not overlap: each
\* begins on a start line and runs up to the line before the next block's
\* start line, the last one to the end of the file; every line from the
\* first start line on is in exactly one block and no line before it is in
\* any; a report without start lines gives no block, and no error.
C12_BlocksPartition ==
    Processed =>
        /\ \A j \in 1..Len(last.blocks) :
              /\ last.blocks[j].block # <<>>
              /\ IsMarker(last.blocks[j].block[1])
              /\ last.blocks[j].block[1] = LastLines[last.blocks[j].start_idx]
              /\ last.blocks[j].start_idx + Len(last.blocks[j].block) =
                    IF j < Len(last.blocks) THEN last.blocks[j + 1].start_idx
                    ELSE Len(LastLines) + 1
              /\ \A k \in 1..Len(last.blocks[j].block) :
                    last.blocks[j].block[k] = LastLines[last.blocks[j].start_idx + k - 1]
        /\ \A n \in 1..Len(LastLines) :
              Cardinality(BlocksHolding(n)) =
                  IF last.blocks # <<>> /\ last.blocks[1].start_idx <= n THEN 1 ELSE 0
        /\ last.blocks # <<>> =>
              \A n \in 1..(last.blocks[1].start_idx - 1) :
                  /\ ~StartsWith(Strip(LastLines[n]), <<">", ">">>)
                  /\ IsMarker(LastLines[n]) =>
                        \E k \in 1..Len(LastLines) : StartsWith(Strip(LastLines[k]), <<">", ">">>)
        /\ (\A n \in 1..Len(LastLines) : ~IsMarker(LastLines[n])) =>
              last.blocks = <<>> /\ pc # "crashed"

\* Lines before the first block, a block of several lines before another
\* one, and a last block of several lines.
C12_Witness ==
    /\ Processed
    /\ Len(last.blocks) >= 2
    /\ last.blocks[1].start_idx > 1
    /\ Len(last.blocks[1].block) >= 3
    /\ Len(last.blocks[Len(last.blocks)].block) >= 3

\* C13: the blocks of a report start on lines of one kind only: on exactly
\* the lines that start with '>>' once stripped when there is such a line,
\* and on exactly the lines matching the ordinal-plus-BGC pattern only
\* when the report has no '>>' line at all.
C13_PrimaryLines == {n \in 1..Len(LastLines) : StartsWith(Strip(LastLines[n]), <<">", ">">>)}
C13_FallbackLines == {n \in 1..Len(LastLines) : MatchFallback(Strip(LastLines[n]))}
C13_Starts == {last.blocks[j].start_idx : j \in 1..Len(last.blocks)}

C13_OneMarkerKind ==
    Processed =>
        /\ Cardinality(C13_Starts) = Len(last.blocks)
        /\ C13_PrimaryLines # {} => C13_Starts = C13_PrimaryLines
        /\ C13_PrimaryLines = {} => C13_Starts = C13_FallbackLines

\* A report with an indented '>>' line and, before and after it, lines of
\* the other pattern that start no block.
C13_Witness ==
    /\ Processed
    /\ \E n \in C13_PrimaryLines : LastLines[n][1] # ">"
    /\ \E m, n \in C13_FallbackLines :
          \E k \in C13_PrimaryLines : m < k /\ k < n
    /\ C13_Starts # {}

\* The lines of a block that are searched for metadata.
Window(block) == SubSeq(block, 1, IF Len(block) < MetaWindow THEN Len(block) ELSE MetaWindow)

\* The text after label kw on the first line of w that starts with it,
\* None when no line does.
C14_FirstLabelled(w, kw) ==
    IF FirstLineWith(w, kw) = 0 THEN None
    ELSE Strip(Tail(Strip(w[FirstLineWith(w, kw)])))

\* The identifier on a line, under either identifier pattern.
C14_IdOn(ln) ==
    IF MatchBgc(Strip(ln)) # None THEN MatchBgc(Strip(ln)) ELSE MatchBgc2(Strip(ln))

\* The identifier on the first line of w that has one, None when none has.
RECURSIVE C14_FirstId(_)
C14_FirstId(w) ==
    IF w = <<>> THEN None
    ELSE IF C14_IdOn(Head(w)) # None THEN C14_IdOn(Head(w))
    ELSE C14_FirstId(Tail(w))

\* C14: each metadata field of a block has the value of the first line,
\* among the block's first 15 lines, that matches the field's pattern.
C14_FirstMatchWins ==
    \A b \in 1..Len(last.blocks) :
        /\ last.blocks[b].bgc_id = C14_FirstId(Window(last.blocks[b].block))
        /\ \A i \in 1..Len(last.blocks[b].rows) :
              /\ last.blocks[b].rows[i].BCG_name =
                    C14_FirstLabelled(Window(last.blocks[b].block), KW_SOURCE)
              /\ last.blocks[b].rows[i].BCG_type =
                    C14_FirstLabelled(Window(last.blocks[b].block), KW_TYPE)
              /\ last.blocks[b].rows[i].proteins_with_blast_hits =
                    C14_FirstLabelled(Window(last.blocks[b].block), KW_NPROT)
              /\ last.blocks[b].rows[i].cum_BLAST_Score =
                    C14_FirstLabelled(Window(last.blocks[b].block), KW_CUM)

\* The values label kw has on the lines of w, and the identifiers, cut at
\* their first '.', that the lines of w hold.
C15_Labelled(w, kw) ==
    {Strip(Tail(Strip(w[n]))) : n \in {k \in 1..Len(w) : StartsWith(Strip(w[k]), <<kw>>)}}

C15_Ids(w) ==
    {CleanBgcId(x) : x \in UNION {{MatchBgc(Strip(w[n])), MatchBgc2(Strip(w[n]))} :
                                     n \in 1..Len(w)} \ {None}}

\* A field is null when its block has no value for it, and one of the
\* values of its block otherwise.
C15_Own(v, own) == IF own = {} THEN v = None ELSE v \in own

\* C15: every hit row has the metadata of its own block: a field that no
\* line among the block's first 15 lines matches is null on the row (not
\* an empty string, not the value of an earlier block), and any other
\* field has a value read from those lines.
C15_OwnBlockMetadata ==
    \A b \in 1..Len(last.blocks) :
        \A i \in 1..Len(last.blocks[b].rows) :
            /\ C15_Own(last.blocks[b].rows[i].BCG_identifier,
                       C15_Ids(Window(last.blocks[b].block)))
            /\ C15_Own(last.blocks[b].rows[i].BCG_name,
                       C15_Labelled(Window(last.blocks[b].block), KW_SOURCE))
            /\ C15_Own(last.blocks[b].rows[i].BCG_type,
                       C15_Labelled(Window(last.blocks[b].block), KW_TYPE))
            /\ C15_Own(last.blocks[b].rows[i].proteins_with_blast_hits,
                       C15_Labelled(Window(last.blocks[b].block), KW_NPROT))
            /\ C15_Own(last.blocks[b].rows[i].cum_BLAST_Score,
                       C15_Labelled(Window(last.blocks[b].block), KW_CUM))

\* A block with an identifier, a name and a type on its rows, followed by
\* a block with rows and none of the three.
C15_Witness ==
    /\ LastKey \in DOMAIN out_results
    /\ \E b, c \in 1..Len(last.blocks) :
          /\ b < c
          /\ last.blocks[b].rows # <<>>
          /\ last.blocks[b].rows[1].BCG_identifier # None
          /\ last.blocks[b].rows[1].BCG_name # None
          /\ last.blocks[b].rows[1].BCG_type # None
          /\ last.blocks[c].rows # <<>>
          /\ last.blocks[c].rows[1].BCG_identifier = None
          /\ last.blocks[c].rows[1].BCG_name = None
          /\ last.blocks[c].rows[1].BCG_type = None

\* C16: the hit rows of a block are exactly its parseable lines, in order,
\* after its first 'Table of Blast hits' line and before the first later
\* line that is blank or a start line; a line there with fewer than 6 tab
\* fields and fewer than 6 tokens gives no row and does not end the
\* collection; a block without such a header gives no row, and the blocks
\* after it give theirs.
C16_Parseable(ln) == Len(SplitTab(ln)) >= 6 \/ Len(SplitWs(ln)) >= 6
C16_Ends(ln) == Strip(ln) = <<>> \/ IsMarker(ln)

\* The lines of the block, by their number in the block, that give a row.
C16_RowLines(block) ==
    {k \in 1..Len(block) :
        /\ C16_Parseable(block[k])
        /\ \E h \in 1..(k - 1) :
              /\ StartsWith(Strip(block[h]), <<KW_HITS>>)
              /\ \A g \in 1..(h - 1) : ~StartsWith(Strip(block[g]), <<KW_HITS>>)
              /\ \A e \in (h + 1)..k : ~C16_Ends(block[e])}

C16_RowsAreHitLines ==
    \A b \in 1..Len(last.blocks) :
        /\ Len(last.blocks[b].rows) = Cardinality(C16_RowLines(last.blocks[b].block))
        /\ \A i \in 1..Len(last.blocks[b].rows) :
              last.blocks[b].rows[i].subject_gene =
                  Dec(last.blocks[b].start_idx - 1
                        + Ascending(C16_RowLines(last.blocks[b].block))[i])

\* A block without a hits header, followed by a block that has a row after
\* a line that is no row, and a hit line after the end of its table.
C16_Witness ==
    /\ LastKey \in DOMAIN out_results
    /\ \E b, c \in 1..Len(last.blocks) :
          /\ b < c
          /\ \A k \in 1..Len(last.blocks[b].block) :
                ~StartsWith(Strip(last.blocks[b].block[k]), <<KW_HITS>>)
          /\ \E j, k \in 1..Len(last.blocks[c].block) :
                /\ j < k
                /\ ~C16_Parseable(last.blocks[c].block[j])
                /\ k \in C16_RowLines(last.blocks[c].block)
                /\ \E h \in C16_RowLines(last.blocks[c].block) : h < j
    /\ \E b \in 1..Len(last.blocks) :
          \E k \in 1..Len(last.blocks[b].block) :
              /\ C16_Parseable(last.blocks[b].block[k])
              /\ k \notin C16_RowLines(last.blocks[b].block)

\* C17: a line of the query-cluster table with fewer than 5 tab fields and
\* 5 tokens or more gives one record: its first four tokens (the first
\* normalized), and as annotation every token from the fifth on, joined by
\* single spaces.  The records are those of the lines after the table's
\* header and before the first line that is blank or starts with
\* 'Significant hits:' or 'Details:'.
C17_Ends(ln) ==
    \/ Strip(ln) = <<>>
    \/ StartsWith(Strip(ln), <<KW_SIG>>)
    \/ StartsWith(Strip(ln), <<KW_DETAILS>>)

\* The lines of the table of the last report that give a record.
C17_RecordLines ==
    {n \in 1..Len(LastLines) :
        /\ Len(SplitTab(LastLines[n])) >= 5 \/ Len(SplitWs(LastLines[n])) >= 5
        /\ \E h \in 1..(n - 1) :
              /\ StartsWith(Strip(LastLines[h]), <<KW_QUERY>>)
              /\ \A g \in 1..(h - 1) : ~StartsWith(Strip(LastLines[g]), <<KW_QUERY>>)
              /\ \A e \in (h + 1)..n : ~C17_Ends(LastLines[e])}

RECURSIVE C17_SumLen(_)
C17_SumLen(toks) == IF toks = <<>> THEN 0 ELSE Len(Head(toks)) + C17_SumLen(Tail(toks))

\* r is the record of the tokens of a line.
C17_OfTokens(r, toks) ==
    /\ r.query_gene = normalize_gene_id(normalize_gene_id(normalize_gene_id(toks[1])))
    /\ <<r.start, r.stop, r.strand>> = <<toks[2], toks[3], toks[4]>>
    /\ SplitWs(r.annotation) = SubSeq(toks, 5, Len(toks))
    /\ Len(r.annotation) = C17_SumLen(SubSeq(toks, 5, Len(toks))) + Len(toks) - 5
    /\ \A i \in 1..Len(r.annotation) : r.annotation[i] \in {SP, TAB} => r.annotation[i] = SP

\* r is the record of the tab fields of a line.
C17_OfFields(r, parts) ==
    <<r.start, r.stop, r.strand>> = <<Strip(parts[2]), Strip(parts[3]), Strip(parts[4])>>

C17_TokensJoined ==
    Processed =>
        /\ Len(last.query_df) = Cardinality(C17_RecordLines)
        /\ \A i \in 1..Len(last.query_df) :
              IF Len(SplitTab(LastLines[Ascending(C17_RecordLines)[i]])) >= 5
              THEN C17_OfFields(last.query_df[i],
                                SplitTab(LastLines[Ascending(C17_RecordLines)[i]]))
              ELSE C17_OfTokens(last.query_df[i],
                                SplitWs(LastLines[Ascending(C17_RecordLines)[i]]))

\* A record with an annotation of three tokens, from a line with fewer
\* than 5 tab fields, in a table that a 'Details:' line ends before a line
\* of 5 tokens.
C17_Witness ==
    /\ Processed
    /\ \E i \in 1..Len(last.query_df) :
          /\ Len(SplitWs(last.query_df[i].annotation)) = 3
          /\ Len(SplitTab(LastLines[Ascending(C17_RecordLines)[i]])) < 5
    /\ \E e, n \in 1..Len(LastLines) :
          /\ e < n
          /\ StartsWith(Strip(LastLines[e]), <<KW_DETAILS>>)
          /\ Len(SplitTab(LastLines[n])) < 5
          /\ Len(SplitWs(LastLines[n])) >= 5
          /\ n \notin C17_RecordLines
          /\ \E m \in C17_RecordLines : m < e

\* C18: at the join the hit-side keys have been normalized three times
\* and the query-side keys four times, the query table being de-duplicated
\* before the fourth; the fourth pass changes no key, so the keys of the
\* de-duplicated query table stay distinct, and a hit row whose key is the
\* three-fold normalized key of a query record is matched.
C18_JoinKeysStable ==
    Processed =>
        /\ \A j \in 1..Len(last.query_df) :
              normalize_gene_id(last.query_df[j].query_gene) = last.query_df[j].query_gene
        /\ \A i, j \in 1..Len(last.query_sub) :
              i # j => last.query_sub[i].query_gene # last.query_sub[j].query_gene
        /\ \A i \in 1..Len(last.merged) :
              (\E j \in 1..Len(last.query_df) :
                  last.query_df[j].query_gene = last.merged[i].query_gene)
                  => last.merged[i]._merge = "both"

----------------------------------------------------------------------------
(* The FASTA tools (SpecSeqs).                                             *)

\* Every record of a FASTA file, in order, as [h, s]: h the header line
\* without its '>', s the lines up to the next header, joined.
RECURSIVE AllRecords(_)
AllRecords(lines) ==
    IF lines = <<>> THEN <<>>
    ELSE LET before == AllRecords(SubSeq(lines, 1, Len(lines) - 1))
             line == Strip(lines[Len(lines)])
         IN  IF StartsWith(line, <<">">>) THEN Append(before, [h |-> Tail(line), s |-> <<>>])
             ELSE IF before = <<>> THEN <<>>
             ELSE [before EXCEPT ![Len(before)].s = @ \o line]

\* The species the species file lists, each once, in the order of the file.
RECURSIVE FirstOnly(_)
FirstOnly(species) ==
    IF species = <<>> THEN <<>>
    ELSE LET before == FirstOnly(SubSeq(species, 1, Len(species) - 1))
         IN  IF \E i \in 1..Len(before) : before[i] = species[Len(species)] THEN before
             ELSE Append(before, species[Len(species)])

Listed == FirstOnly(read_species_list(args.species_lines))

\* C19: the output file of an orthogroup holds every record of the input
\* file, unchanged and in order, then one record '<species>_00|' for each
\* listed species, in list order, that no input header begins with; such a
\* record is made of '-' only and is as long as the longest input sequence;
\* so every listed species has a record in the output file.
C19_Longest(recs) ==
    IF recs = <<>> THEN 0
    ELSE CHOOSE n \in {Len(recs[i].s) : i \in 1..Len(recs)} :
            \A i \in 1..Len(recs) : Len(recs[i].s) <= n

C19_Absent(recs) ==
    SelectSeq(Listed, LAMBDA sp : \A i \in 1..Len(recs) : SpeciesOf(recs[i].h) # sp)

C19_Added(recs) ==
    [i \in 1..Len(C19_Absent(recs)) |->
        [h |-> C19_Absent(recs)[i] \o <<"_", "0", "0", "|">>,
         s |-> [j \in 1..C19_Longest(recs) |-> "-"]]]

C19_AllRecordsKept ==
    \A og \in DOMAIN completed :
        /\ AllRecords(completed[og]) =
              AllRecords(args.files[og]) \o C19_Added(AllRecords(args.files[og]))
        /\ \A k \in 1..Len(Listed) :
              \E i \in 1..Len(AllRecords(completed[og])) :
                  SpeciesOf(AllRecords(completed[og])[i].h) = Listed[k]

\* C20: the output of combine_seqs holds exactly the listed species, each
\* once, in sorted order; the sequence of a species is made of the records
\* whose header begins with the species (up to the first '_'), in the
\* order of the ortholog files and of the records in a file; a record of a
\* species that is not listed adds nothing.
C20_Inputs == AllRecords(args.files[1]) \o AllRecords(args.files[2])

RECURSIVE C20_SequenceOf(_, _)
C20_SequenceOf(sp, recs) ==
    IF recs = <<>> THEN <<>>
    ELSE (IF SpeciesOf(Head(recs).h) = sp THEN Head(recs).s ELSE <<>>)
             \o C20_SequenceOf(sp, Tail(recs))

C20_ExpectedSpeciesOnly ==
    output_file # None =>
        /\ {AllRecords(output_file)[i].h : i \in 1..Len(AllRecords(output_file))}
              = {Listed[k] : k \in 1..Len(Listed)}
        /\ \A i, j \in 1..Len(AllRecords(output_file)) :
              i < j => LexLess(AllRecords(output_file)[i].h, AllRecords(output_file)[j].h)
        /\ \A i \in 1..Len(AllRecords(output_file)) :
              AllRecords(output_file)[i].s =
                  C20_SequenceOf(AllRecords(output_file)[i].h, C20_Inputs)

\* A listed species with a record in the first file and two in the second,
\* and a record, with a sequence, of a species that is not listed.
C20_Witness ==
    /\ output_file # None
    /\ \E k \in 1..Len(Listed) :
          /\ Cardinality({i \in 1..Len(AllRecords(args.files[2])) :
                            /\ SpeciesOf(AllRecords(args.files[2])[i].h) = Listed[k]
                            /\ AllRecords(args.files[2])[i].s # <<>>}) >= 2
          /\ \E i \in 1..Len(AllRecords(args.files[1])) :
                /\ SpeciesOf(AllRecords(args.files[1])[i].h) = Listed[k]
                /\ AllRecords(args.files[1])[i].s # <<>>
    /\ \E i \in 1..Len(C20_Inputs) :
          /\ C20_Inputs[i].s # <<>>
          /\ C20_Inputs[i].h # <<>>
          /\ \A k \in 1..Len(Listed) : SpeciesOf(C20_Inputs[i].h) # Listed[k]

====
